---- MODULE Spec2Model ----
(***************************************************************************)
(* IndianEHVSubstationDigitalTwin (src/src/api/                            *)
(* digital_twin_server.py.backup): the simulation thread's tick loop, the  *)
(* entry points that the API handlers call on the same object, and the     *)
(* state they share.                                                       *)
(*                                                                         *)
(* Units.  health_score is kept in units of 0.05 (100.0 is 2000),          *)
(* temperature in tenths of a degree, power in kW (the grid asset and the  *)
(* metrics, which the code keeps in MW, are kept in kW as well),           *)
(* voltage in kV, efficiency in percent, per-unit voltages in hundredths,  *)
(* frequency in hundredths of a hertz.  Float rounding is not modelled.    *)
(* datetime.now() is the logical clock `ticks`, which advances once per    *)
(* loop iteration.  Python's None is NoneV.                                *)
(*                                                                         *)
(* Granularity.  The code takes no lock, and Python may switch threads     *)
(* between any two bytecodes, so every read and every write of a field     *)
(* that two contexts write is a step of its own.  Consecutive writes of    *)
(* fields that only the tick writes are one step, and a read accessor      *)
(* takes its copy in one step: a reader here sees fewer intermediate       *)
(* states than the code allows, never more.                                *)
(*                                                                         *)
(* Callers.  The entry points are modelled as called from two contexts     *)
(* that run concurrently with each other and with the loop threads.        *)
(*                                                                         *)
(* History.  boot, settled, pre, halted, pub, got, joined and done record   *)
(* what the run has been through; no step of the program reads them.       *)
(***************************************************************************)
EXTENDS Integers, Sequences, FiniteSets, TLC

VARIABLES
    is_running,          \* self.is_running
    simulation_thread,   \* self.simulation_thread: NoThread or a thread id
    opendss_results,     \* self.opendss_results
    assets,              \* self.assets: asset id -> AssetStatus
    metrics,             \* self.metrics
    websocket_clients,   \* self.websocket_clients (a list)
    faults,              \* self.faults (a list of FaultAnalysis)
    thr,                 \* per thread object: position in _simulation_loop and its locals
    cal,                 \* per calling context: the call it is in and its locals
    ws,                  \* per websocket: "new", "open" (in its receive loop) or "gone"
    ticks,               \* loop iterations begun so far; also the clock
    feed,                \* what the solver, the engine and the random source will answer, tick by tick
    script,              \* per calling context: the calls it has yet to make
    boot,                \* history: the registry and the scripts at the start
    settled,             \* history: the registry and the metrics when last no writer was part-way
    pre,                 \* history, per thread: the registry and the metrics when its tick began
    halted,              \* history: a stop_simulation has returned, leaving the flag down and
                         \* no start under way, and start_simulation was not called since
    pub,                 \* history, per thread: its latest call of _broadcast_updates
    got,                 \* history, per websocket: the ticks whose update it was sent
    joined,              \* history, per websocket: the ticks that were over when it was appended
    done                 \* history: the ticks that are over

vars == <<is_running, simulation_thread, opendss_results, assets, metrics,
          websocket_clients, faults, thr, cal, ws, ticks, feed, script,
          boot, settled, pre, halted, pub, got, joined, done>>

-----------------------------------------------------------------------------
\* Bounds of the model.

\* loop iterations begun, over all threads
MaxTicks == 2
\* trip commands that may have been applied to every asset before the model starts
PriorTrips == 10

ThreadOrder == <<"T1", "T2">>
Threads == {ThreadOrder[n] : n \in 1..Len(ThreadOrder)}
Callers == {"c1", "c2"}
Sockets == {"w1", "w2"}
NoThread == "None"
NoneV == -1

\* One asset of each class of the manifest, in the order the tick visits them.
UpdateOrder == <<"Grid400kV", "TX1_400_220", "DTX1_220_33", "CB_1", "IndustrialLoad1">>
AssetIds == {UpdateOrder[k] : k \in 1..Len(UpdateOrder)}
UnknownAsset == "NoSuchAsset"
Actions == {"open", "close", "trip", "reset"}
UnknownAction == "bogus"

-----------------------------------------------------------------------------
\* Arithmetic helpers.

Abs(x) == IF x < 0 THEN -x ELSE x
Min(a, b) == IF a < b THEN a ELSE b
Max(a, b) == IF a > b THEN a ELSE b

\* power / (voltage * 1.732) if voltage > 0 else 0
CurrentOf(power, voltage) ==
    IF voltage > 0 THEN (power * 1000) \div (voltage * 1732) ELSE 0

AssetType(id) ==
    CASE id = "Grid400kV" -> "GridConnection"
      [] id = "TX1_400_220" -> "PowerTransformer"
      [] id = "DTX1_220_33" -> "DistributionTransformer"
      [] id = "CB_1" -> "CircuitBreaker"
      [] OTHER -> "IndustrialLoad"

-----------------------------------------------------------------------------
\* What one loop iteration receives from outside: the solver's result, what the
\* OpenDSS engine answers to the per-element queries after that solve, and the
\* draws of np.random.normal.  A field of the result may be None.

TickInput(conv, ptot, v400, v220, loss, dss, ptx, pdtx, pload, vload, jtx, jdtx, jcb, jload, fj) ==
    [raises |-> FALSE,
     res |-> [converged |-> conv, total_power_kw |-> ptot, voltage_400kv |-> v400,
              voltage_220kv |-> v220, total_losses_mw |-> loss,
              max_voltage_pu |-> 102, min_voltage_pu |-> 98],
     dss |-> dss, tx_powers |-> ptx, dtx_powers |-> pdtx, load_powers |-> pload,
     load_voltage |-> vload,
     jitter |-> [tx |-> jtx, dtx |-> jdtx, cb |-> jcb, load |-> jload], fjit |-> fj]

Nominal == TickInput(TRUE, 27000, 400, 220, 500, TRUE, 13500, 6750, 15000, 33, 0, 0, 0, 0, 0)
Overload == TickInput(TRUE, 567000, 400, 220, 9000, TRUE, 283500, 50000, 19000, 32, 0, 0, 5, 0, 3)
Extreme == TickInput(FALSE, 630000, 380, 200, 20000, TRUE, 315000, 60000, 19000, 30, 60, 110, -5, 10, -4)
NoAnswer == TickInput(FALSE, 0, 400, 220, 0, TRUE, NoneV, NoneV, NoneV, NoneV, 0, 0, 0, 0, 0)
NoEngine == TickInput(TRUE, 27000, 400, 220, 500, FALSE, 13500, 6750, 15000, 33, 0, 0, 0, 0, 0)
BadVoltage == TickInput(TRUE, 27000, 400, NoneV, 500, TRUE, 13500, 6750, 15000, 33, 0, 0, 0, 0, 0)
BadLosses == TickInput(TRUE, 27000, 400, 220, NoneV, TRUE, 13500, 6750, 15000, 33, 0, 0, 0, 0, 0)

\* load_flow.solve() raises
SolverDown == [Nominal EXCEPT !.raises = TRUE]

\* The answers the model follows, tick after tick (and around again).
Feeds == {<<Nominal, Overload>>, <<SolverDown, Extreme>>, <<BadVoltage, NoAnswer>>,
          <<BadLosses, NoEngine>>}

\* The answers followed when two calling contexts both start the simulation.
RaceFeeds == {<<NoEngine, Nominal>>, <<NoEngine, SolverDown>>}

FeedAt(f, n) == f[((n - 1) % Len(f)) + 1]

\* create_task(client.send(...)) either schedules the send or raises
SendOutcomes == {"ok", "raise"}

-----------------------------------------------------------------------------
\* control_asset, as a function of the asset it finds (lines 626-641).

\* a control_asset that opens and closes whatever asset it is given
ControlAnyAsset(action, type) == action \in Actions

\* the branches of lines 626-641 that do not raise
ControlValid(action, type) ==
    \/ action \in {"open", "close"} /\ type = "CircuitBreaker"
    \/ action \in {"trip", "reset"}

\* the status the command writes
ControlStatus(action) ==
    CASE action = "open" -> "open"
      [] action = "close" -> "closed"
      [] action = "trip" -> "fault"
      [] OTHER -> "healthy"

\* a command set in which operating a breaker wears it as well
SwitchingTouchesHealth(action) == TRUE

\* whether the command goes on to rewrite health_score
ControlTouchesHealth(action) == action \in {"trip", "reset"}

\* a trip that forgets the floor
TripUnclamped(hs) == hs - 200

\* max(0, health_score - 10)
TripHealth(hs) == Max(0, hs - 200)

\* min(100, health_score + 20)
ResetHealth(hs) == Min(2000, hs + 400)

ControlHealth(action, hs) ==
    IF action = "trip" THEN TripHealth(hs) ELSE ResetHealth(hs)

\* the whole command applied to an asset record with no other context running
ApplyControl(action, a) ==
    IF ControlTouchesHealth(action)
    THEN [a EXCEPT !.status = ControlStatus(action),
                   !.health_score = ControlHealth(action, a.health_score)]
    ELSE [a EXCEPT !.status = ControlStatus(action)]

-----------------------------------------------------------------------------
\* The tick's per-asset rules (lines 388-403, 430-445, 453-458, 494-505).

\* base_temp + load_factor * 35.0 + normal(0, 1), load_factor = min(power / 1000 / 315, 1)
PowerTransformerTemp(power, jitter) == 450 + Min((power * 350) \div 315000, 350) + jitter

\* 50 + min(power / 1000 / 50, 1) * 30 + normal(0, 1)
DistributionTransformerTemp(power, jitter) == 500 + Min((power * 300) \div 50000, 300) + jitter

\* 30 + normal(0, 2)
BreakerTemp(jitter) == 300 + jitter

\* 35 + power / 20000 * 15 + normal(0, 1)
LoadTemp(power, jitter) == 350 + (power * 150) \div 20000 + jitter

\* the temperature the tick writes to an asset of this type
TickTemp(type, power, jitter) ==
    CASE type = "PowerTransformer" -> PowerTransformerTemp(power, jitter.tx)
      [] type = "DistributionTransformer" -> DistributionTransformerTemp(power, jitter.dtx)
      [] type = "CircuitBreaker" -> BreakerTemp(jitter.cb)
      [] OTHER -> LoadTemp(power, jitter.load)

\* the voltage the tick takes from the solver's result for an asset of this type
ElecVoltage(type, res) ==
    IF type = "DistributionTransformer" THEN res.voltage_220kv ELSE res.voltage_400kv

\* asset.power of a transformer: the engine's answer, or the estimate from the
\* total when the engine has none or when the first attempt raised on the voltage
TransformerPower(type, in, res) ==
    LET tx == type = "PowerTransformer"
        q == IF tx THEN in.tx_powers ELSE in.dtx_powers
        total == Abs(res.total_power_kw)
        est == IF tx THEN total \div 2000 ELSE total \div 4000
    IN IF q # NoneV /\ ElecVoltage(type, res) # NoneV THEN Abs(q) ELSE est

\* asset.power of a load: the engine's answer, or the base value of the DSS file
LoadPower(in) == IF in.load_powers # NoneV THEN Abs(in.load_powers) ELSE 15000

\* an update that has the distribution transformer's thresholds for every transformer
OneThresholdPair(type, temperature) ==
    IF temperature > 900 THEN "fault" ELSE IF temperature > 750 THEN "warning" ELSE "healthy"

\* the branch of the if/elif/else on asset.temperature
ThermalBranch(type, temperature) ==
    IF type = "PowerTransformer"
    THEN IF temperature > 850 THEN "fault" ELSE IF temperature > 700 THEN "warning" ELSE "healthy"
    ELSE IF temperature > 900 THEN "fault" ELSE IF temperature > 750 THEN "warning" ELSE "healthy"

\* the health_score a transformer branch writes, from the health_score it read
ThermalHealth(branch, hs) ==
    CASE branch = "fault" -> Max(0, hs - 10)
      [] branch = "warning" -> Max(1200, hs - 2)
      [] OTHER -> Min(2000, hs + 1)

\* circuit breakers: max(0, hs - 1) when the status read was "fault", else min(100, hs + 0.05)
BreakerHealth(branch, hs) ==
    IF branch = "fault" THEN Max(0, hs - 20) ELSE Min(2000, hs + 1)

\* industrial loads: the branch on asset.power > 18000
LoadBranch(power) == IF power > 18000 THEN "warning" ELSE "healthy"

LoadHealth(branch, hs) ==
    IF branch = "warning" THEN Max(1400, hs - 2) ELSE Min(2000, hs + 1)

\* The steps of one asset's update, by class, in the order of the code.
SubSteps(type) ==
    CASE type = "GridConnection" -> <<"elec", "status", "stamp">>
      [] type \in {"PowerTransformer", "DistributionTransformer"} ->
            <<"elec", "temp", "rd", "hs", "status", "stamp">>
      [] type = "CircuitBreaker" -> <<"temp", "rdst", "rdhs", "hs", "status", "stamp">>
      [] OTHER -> <<"elec", "temp", "status", "rdhs", "hs", "stamp">>

-----------------------------------------------------------------------------
\* The state after construction (__init__, _initialize_substation, _setup_assets).

InitialSolve == Nominal.res

SetupAsset(id) ==
    LET r == InitialSolve
        total == Abs(r.total_power_kw)
        st == IF r.converged THEN "healthy" ELSE "warning"
        mk(s, v, c, p, t, h) ==
            [asset_type |-> AssetType(id), status |-> s, voltage |-> v, current |-> c,
             power |-> p, temperature |-> t, timestamp |-> 0, health_score |-> h]
    IN CASE id = "Grid400kV" ->
              mk(st, r.voltage_400kv, CurrentOf(total, r.voltage_400kv), total, 250, 2000)
         [] id = "TX1_400_220" ->
              mk(st, r.voltage_400kv, CurrentOf(total \div 2, r.voltage_400kv), total \div 2,
                 450 + ((total \div 2) * 250) \div 315000, 1900)
         [] id = "DTX1_220_33" ->
              mk(st, r.voltage_220kv, CurrentOf(total \div 4, r.voltage_220kv), total \div 4,
                 500 + ((total \div 4) * 200) \div 50000, 1800)
         [] id = "CB_1" -> mk("healthy", 0, 0, 0, 300, 1960)
         [] OTHER -> mk("healthy", 33, CurrentOf(15000, 33), 15000,
                        350 + (15000 * 100) \div 20000, 1700)

InitialMetrics ==
    [total_power |-> 0, total_load |-> 0, efficiency |-> 0, voltage_stability |-> 0,
     frequency |-> 5000, timestamp |-> 0, grid_connection |-> TRUE, fault_count |-> 0]

RECURSIVE Repeat(_, _, _)
Repeat(action, n, a) == IF n = 0 THEN a ELSE Repeat(action, n - 1, ApplyControl(action, a))

\* update_data before _broadcast_updates has built it
NoData == [type |-> "none"]

\* no call of _broadcast_updates yet.  state is "open" while the call is in its
\* loops and "closed" once it has returned or raised; n is the tick, before the
\* client list as the call found it, tried the sends it attempted in order,
\* touched whether anything but the call itself has changed the list since
NoPublish == [state |-> "none", n |-> 0, before |-> <<>>, tried |-> <<>>, touched |-> FALSE]

\* A thread object before start(); the locals of _simulation_loop and of the
\* functions it calls.  err is the exception the running iteration has raised,
\* given the arguments of the analyzer call of the running iteration.
IdleThread == [pc |-> "unborn", n |-> 0, i |-> 0, sub |-> "", in |-> Nominal, now |-> 0,
               hs |-> 0, br |-> "", err |-> "none", ai |-> "", k |-> 0, disc |-> <<>>,
               data |-> NoData, given |-> NoData]

\* A calling context outside any call.  ret is how its last call ended, snap the
\* value a read accessor is returning, alias whether that value is the twin's
\* own object rather than a copy of it.
IdleCaller == [pc |-> "idle", id |-> "", action |-> "", hs |-> 0, target |-> NoThread,
               ret |-> "none", snap |-> <<>>, alias |-> FALSE]

\* The calls a context may have to make.
StartCall == [op |-> "start", id |-> "", action |-> ""]
StopCall == [op |-> "stop", id |-> "", action |-> ""]
ControlCall(id, action) == [op |-> "control", id |-> id, action |-> action]
AssetsCall == [op |-> "assets", id |-> "", action |-> ""]
MetricsCall == [op |-> "metrics", id |-> "", action |-> ""]
StatusCall(id) == [op |-> "asset", id |-> id, action |-> ""]
HistoryCall == [op |-> "faults", id |-> "", action |-> ""]
ConnectCall(w) == [op |-> "connect", id |-> w, action |-> ""]
DisconnectCall(w) == [op |-> "disconnect", id |-> w, action |-> ""]
FaultCall(type, location) == [op |-> "fault", id |-> location, action |-> type]

\* The commands the model issues.
Commands ==
    {ControlCall("CB_1", a) : a \in Actions \cup {UnknownAction}}
    \cup {ControlCall(id, a) : id \in {"Grid400kV", "TX1_400_220"}, a \in {"trip", "reset"}}
    \cup {ControlCall("DTX1_220_33", "open"), ControlCall("IndustrialLoad1", "trip"),
          ControlCall(UnknownAsset, "trip")}

Two(a, b) == [c \in Callers |-> IF c = "c1" THEN a ELSE b]

\* Both contexts ask for a fault analysis; the simulation is not started.
FaultsAtOnce == Two(<<FaultCall("three_phase", "Bus220kV_1")>>,
                    <<FaultCall("line_to_ground", "Bus400kV_1")>>)

\* A fault analysis is asked for while the simulation runs.
FaultDuringTick == Two(<<StartCall>>, <<FaultCall("three_phase", "Bus220kV_1")>>)

\* One context resets the breaker twice in a row; the simulation is not started.
ResetTwice == Two(<<ControlCall("CB_1", "reset"), ControlCall("CB_1", "reset")>>, <<>>)

\* What the two calling contexts do, each in its own order and at its own pace.
Scripts ==
    {Two(<<StopCall, StartCall, StartCall, StopCall, StopCall>>, <<>>),
     Two(<<StartCall>>, <<StopCall>>),
     Two(<<StartCall>>, <<AssetsCall>>),
     Two(<<StartCall>>, <<MetricsCall>>),
     Two(<<ConnectCall("w1"), StartCall, DisconnectCall("w1")>>, <<ConnectCall("w2")>>),
     ResetTwice, FaultsAtOnce, FaultDuringTick}
    \cup {Two(<<StartCall>>, <<cmd>>) : cmd \in Commands}

\* Both contexts call start_simulation at once; one of them then stops it.
RaceScripts == {Two(<<StartCall, StopCall>>, <<StartCall>>)}

\* One asset's status is read while the simulation runs, and the fault list is
\* read while a fault analysis is asked for.
ReadScripts ==
    {Two(<<StartCall>>, <<StatusCall("TX1_400_220")>>),
     Two(<<FaultCall("three_phase", "Bus220kV_1")>>, <<HistoryCall, StatusCall(UnknownAsset)>>)}

\* The runs the model follows: every script against every feed, and the racing
\* starts against the feeds in which one of the two iterations is short.
Scenarios == Feeds \X Scripts
RaceScenarios == RaceFeeds \X RaceScripts
ReadScenarios == {<<Nominal, Overload>>} \X ReadScripts

\* A client connects, the simulation is started, and a breaker is tripped.
TripWhilePublishing ==
    Two(<<ConnectCall("w1"), StartCall, ControlCall("CB_1", "trip")>>, <<>>)

\* The runs followed where the question is whether the loop goes on: one
\* script for each entry point against every feed, and the racing starts against
\* a feed whose solve raises.
LiveScripts ==
    {Two(<<StartCall>>, <<StopCall>>),
     Two(<<StartCall>>, <<AssetsCall>>),
     Two(<<StartCall>>, <<MetricsCall>>),
     Two(<<StartCall>>, <<ControlCall("CB_1", "trip")>>)}

\* The scripts followed against one feed only, a short first iteration and a
\* second whose solve raises.
ShortLiveScripts ==
    RaceScripts
    \cup ReadScripts
    \cup {FaultDuringTick, TripWhilePublishing,
          Two(<<ConnectCall("w1"), StartCall, DisconnectCall("w1")>>, <<ConnectCall("w2")>>)}

LiveScenarios ==
    (Feeds \X LiveScripts) \cup ({<<NoEngine, SolverDown>>} \X ShortLiveScripts)

\* Construction, then possibly some trip commands on every asset before
\* anything else runs (control_asset needs no running simulation).
Setup(scenarios, trips) ==
    /\ is_running = FALSE
    /\ simulation_thread = NoThread
    /\ opendss_results = InitialSolve
    /\ \E n \in trips : assets = [id \in AssetIds |-> Repeat("trip", n, SetupAsset(id))]
    /\ metrics = InitialMetrics
    /\ websocket_clients = <<>>
    /\ faults = <<>>
    /\ thr = [t \in Threads |-> IdleThread]
    /\ cal = [c \in Callers |-> IdleCaller]
    /\ ws = [w \in Sockets |-> "new"]
    /\ ticks = 0
    /\ \E sc \in scenarios : feed = sc[1] /\ script = sc[2]
    /\ boot = [assets |-> assets, script |-> script]
    /\ settled = [assets |-> assets, metrics |-> metrics]
    /\ pre = [t \in Threads |-> [assets |-> assets, metrics |-> metrics]]
    /\ halted = FALSE
    /\ pub = [t \in Threads |-> NoPublish]
    /\ got = [w \in Sockets |-> {}]
    /\ joined = [w \in Sockets |-> {}]
    /\ done = {}

\* The racing starts and the further reads are followed from the registry as
\* constructed.
Init ==
    \/ Setup(Scenarios, {0, PriorTrips})
    \/ Setup(RaceScenarios \cup ReadScenarios, {0})

LiveInit == Setup(LiveScenarios, {0})

-----------------------------------------------------------------------------
\* The history variables, which no step of the program reads.

\* the first step of the update of the k-th asset
FirstSub(k) == SubSteps(AssetType(UpdateOrder[k]))[1]

\* thread record r is inside an iteration of the loop
InTick(r) == r.pc \notin {"unborn", "created", "loop", "dead"}

\* some thread has written part of the registry update it is in
MidUpdate(th) ==
    \E t \in Threads : th[t].pc = "asset" /\ ~(th[t].i = 1 /\ th[t].sub = FirstSub(1))

\* some command is between its write of status and its write of health_score
MidCommand(cl) == \E c \in Callers : cl[c].pc \in {"ctl_read", "ctl_write"}

\* some thread is between the two parts of the metrics recompute
MidMetrics(th) == \E t \in Threads : th[t].pc = "metrics2"

MidStart(cl) == \E c \in Callers : cl[c].pc \in {"start_set", "start_new", "start_run"}

StartCalled == \E c \in Callers :
    cal[c].pc = "idle" /\ script[c] # <<>> /\ Head(script[c]).op = "start" /\ script'[c] # script[c]

StopReturned == \E c \in Callers :
    cal[c].pc \in {"stop_read", "stop_join"} /\ cal'[c].pc = "idle" /\ cal'[c].ret = "ok"

\* thread record r is in one of the two loops of _broadcast_updates
Publishing(r) == r.pc \in {"bsend", "bremove"}

\* thread t takes a turn of the send loop
Sends(t) == thr[t].pc = "bsend" /\ thr'[t].pc = "bsend" /\ thr'[t].k = thr[t].k + 1

\* what thread t's step makes of the record of its publish call
PublishRecord(t) ==
    LET r == thr[t]
        s == thr'[t]
        p == pub[t]
    IN IF r.pc = "broadcast" /\ s.pc # "broadcast"
       THEN [state |-> IF Publishing(s) THEN "open" ELSE "closed", n |-> r.n,
             before |-> websocket_clients, tried |-> <<>>, touched |-> FALSE]
       ELSE [p EXCEPT
               !.state = IF p.state = "open" /\ ~Publishing(s) THEN "closed" ELSE @,
               !.tried = IF Sends(t)
                         THEN Append(@, [to |-> websocket_clients[r.k], ok |-> s.disc = r.disc,
                                         msg |-> r.data])
                         ELSE @,
               !.touched = @ \/ (/\ p.state # "none"
                                   /\ websocket_clients' # websocket_clients
                                   /\ ~(r.pc = "bremove" /\ s # r))]

\* an endpoint that greets a new client with the updates already published
ReplayLatest(over) == over

\* websocket_endpoint, lines 1109-1115: a client that has just been appended is
\* sent nothing of what was published before
Replayed(over) == {}

History ==
    /\ pub' = [t \in Threads |-> PublishRecord(t)]
    /\ done' = done \cup {thr[t].n : t \in {u \in Threads : InTick(thr[u]) /\ ~InTick(thr'[u])}}
    /\ joined' = [w \in Sockets |-> IF ws[w] = "new" /\ ws'[w] = "open" THEN done ELSE joined[w]]
    /\ got' = [w \in Sockets |->
                 got[w]
                 \cup (IF ws[w] = "new" /\ ws'[w] = "open" THEN Replayed(done) ELSE {})
                 \cup {thr[t].n : t \in {u \in Threads :
                           /\ Sends(u)
                           /\ websocket_clients[thr[u].k] = w
                           /\ thr'[u].disc = thr[u].disc}}]
    /\ boot' = boot
    /\ settled' = [assets |-> IF MidUpdate(thr') \/ MidCommand(cal')
                              THEN settled.assets ELSE assets',
                   metrics |-> IF MidMetrics(thr') THEN settled.metrics ELSE metrics']
    /\ pre' = [t \in Threads |->
                 IF InTick(thr'[t])
                 THEN IF InTick(thr[t]) THEN pre[t] ELSE [assets |-> assets, metrics |-> metrics]
                 ELSE [assets |-> assets', metrics |-> metrics']]
    /\ halted' = IF StartCalled THEN FALSE
                 ELSE IF StopReturned /\ ~is_running' /\ ~MidStart(cal') THEN TRUE
                 ELSE halted

-----------------------------------------------------------------------------
\* _simulation_loop (lines 314-339), one thread t.

Goto(t, r) == thr' = [thr EXCEPT ![t] = r]

\* a loop that takes a failed solve for a result and goes on to the update
SolveErrorIgnored == "upd"

\* where control goes when load_flow.solve() raises: the loop's except clause
OnSolveError == "except"

\* while self.is_running:
Loop(t) ==
    /\ thr[t].pc = "loop"
    /\ IF is_running
       THEN /\ ticks < MaxTicks
            /\ ticks' = ticks + 1
            /\ Goto(t, [thr[t] EXCEPT !.pc = "solve", !.n = ticks + 1])
       ELSE /\ Goto(t, [thr[t] EXCEPT !.pc = "dead"])
            /\ UNCHANGED ticks
    /\ UNCHANGED <<faults, is_running, simulation_thread, opendss_results, assets, metrics,
                   websocket_clients, cal, ws, feed, script>>
    /\ History

\* self.opendss_results = self.load_flow.solve()
Solve(t) ==
    /\ thr[t].pc = "solve"
    /\ LET in == FeedAt(feed, thr[t].n)
       IN IF in.raises
          THEN /\ Goto(t, [thr[t] EXCEPT !.pc = OnSolveError, !.err = "solve"])
               /\ UNCHANGED opendss_results
          ELSE /\ opendss_results' = in.res
               /\ Goto(t, [thr[t] EXCEPT !.pc = "upd", !.in = in])
    /\ UNCHANGED <<faults, is_running, simulation_thread, assets, metrics, websocket_clients,
                   cal, ws, ticks, feed, script>>
    /\ History

\* _update_asset_statuses, lines 343-349: the clock is read, and the update is
\* skipped when self.load_flow.dss is not there
UpdEnter(t) ==
    /\ thr[t].pc = "upd"
    /\ IF thr[t].in.dss
       THEN Goto(t, [thr[t] EXCEPT !.pc = "asset", !.now = ticks, !.i = 1, !.sub = FirstSub(1)])
       ELSE Goto(t, [thr[t] EXCEPT !.pc = "metrics1", !.now = ticks])
    /\ UNCHANGED <<faults, is_running, simulation_thread, opendss_results, assets, metrics,
                   websocket_clients, cal, ws, ticks, feed, script>>
    /\ History

\* the thread after the step r.sub of asset r.i: the next step, the next asset,
\* or the return to the loop, which goes on to _update_substation_metrics
Advance(r) ==
    LET seq == SubSteps(AssetType(UpdateOrder[r.i]))
        pos == CHOOSE n \in 1..Len(seq) : seq[n] = r.sub
    IN IF pos < Len(seq) THEN [r EXCEPT !.sub = seq[pos + 1]]
       ELSE IF r.i < Len(UpdateOrder)
            THEN [r EXCEPT !.i = r.i + 1, !.sub = FirstSub(r.i + 1), !.hs = 0, !.br = ""]
            ELSE [r EXCEPT !.pc = "metrics1", !.i = 0, !.sub = "", !.hs = 0, !.br = ""]

\* lines 509-511: an exception inside the update is logged and the function returns
UpdateFailed(r) ==
    [r EXCEPT !.pc = "metrics1", !.err = "update", !.i = 0, !.sub = "", !.hs = 0, !.br = ""]

AtSub(t, s) == thr[t].pc = "asset" /\ thr[t].sub = s
Cur(t) == UpdateOrder[thr[t].i]

\* the solver-derived fields of one asset (lines 355-358, 368-386, 412-428, 467-492)
Elec(t) ==
    /\ AtSub(t, "elec")
    /\ LET id == Cur(t)
           type == AssetType(id)
           res == opendss_results
           in == thr[t].in
           total == Abs(res.total_power_kw)
           v == ElecVoltage(type, res)
       IN CASE type = "GridConnection" ->
                 IF v = NoneV
                 THEN /\ assets' = [assets EXCEPT ![id].voltage = v, ![id].power = total]
                      /\ Goto(t, UpdateFailed(thr[t]))
                 ELSE /\ assets' = [assets EXCEPT ![id].voltage = v, ![id].power = total,
                                         ![id].current = CurrentOf(total, v),
                                         ![id].temperature = 250]
                      /\ Goto(t, Advance(thr[t]))
            [] type \in {"PowerTransformer", "DistributionTransformer"} ->
                 LET p == TransformerPower(type, in, res)
                 IN IF v = NoneV
                    THEN /\ assets' = [assets EXCEPT ![id].power = p, ![id].voltage = v]
                         /\ Goto(t, UpdateFailed(thr[t]))
                    ELSE /\ assets' = [assets EXCEPT ![id].power = p, ![id].voltage = v,
                                            ![id].current = CurrentOf(p, v)]
                         /\ Goto(t, Advance(thr[t]))
            [] OTHER ->
                 LET p == LoadPower(in)
                     c == IF in.load_powers = 0 THEN 0 ELSE CurrentOf(p, 33)
                     lv == IF in.load_voltage # NoneV THEN in.load_voltage ELSE 33
                 IN /\ assets' = [assets EXCEPT ![id].power = p, ![id].current = c,
                                       ![id].voltage = lv]
                    /\ Goto(t, Advance(thr[t]))
    /\ UNCHANGED <<faults, is_running, simulation_thread, opendss_results, metrics,
                   websocket_clients, cal, ws, ticks, feed, script>>
    /\ History

\* asset.temperature = ... (lines 392, 434, 453, 497)
Temp(t) ==
    /\ AtSub(t, "temp")
    /\ LET id == Cur(t)
       IN assets' = [assets EXCEPT
                       ![id].temperature = TickTemp(AssetType(id), assets[id].power, thr[t].in.jitter)]
    /\ Goto(t, Advance(thr[t]))
    /\ UNCHANGED <<faults, is_running, simulation_thread, opendss_results, metrics,
                   websocket_clients, cal, ws, ticks, feed, script>>
    /\ History

\* transformers: asset.temperature selects the branch, asset.health_score is read
Rd(t) ==
    /\ AtSub(t, "rd")
    /\ LET id == Cur(t)
       IN Goto(t, Advance([thr[t] EXCEPT
                   !.br = ThermalBranch(AssetType(id), assets[id].temperature),
                   !.hs = assets[id].health_score]))
    /\ UNCHANGED <<faults, is_running, simulation_thread, opendss_results, assets, metrics,
                   websocket_clients, cal, ws, ticks, feed, script>>
    /\ History

\* circuit breakers: if asset.status == "fault" (line 454)
RdSt(t) ==
    /\ AtSub(t, "rdst")
    /\ Goto(t, Advance([thr[t] EXCEPT
                !.br = IF assets[Cur(t)].status = "fault" THEN "fault" ELSE "other"]))
    /\ UNCHANGED <<faults, is_running, simulation_thread, opendss_results, assets, metrics,
                   websocket_clients, cal, ws, ticks, feed, script>>
    /\ History

\* the read of asset.health_score in max(.., asset.health_score - ..)
RdHs(t) ==
    /\ AtSub(t, "rdhs")
    /\ Goto(t, Advance([thr[t] EXCEPT !.hs = assets[Cur(t)].health_score]))
    /\ UNCHANGED <<faults, is_running, simulation_thread, opendss_results, assets, metrics,
                   websocket_clients, cal, ws, ticks, feed, script>>
    /\ History

\* the health_score the tick writes to an asset of this type, from what it read
TickHealth(type, branch, hs) ==
    CASE type \in {"PowerTransformer", "DistributionTransformer"} -> ThermalHealth(branch, hs)
      [] type = "CircuitBreaker" -> BreakerHealth(branch, hs)
      [] OTHER -> LoadHealth(branch, hs)

\* asset.health_score = ...; a breaker found in fault gets no status write
WrHs(t) ==
    /\ AtSub(t, "hs")
    /\ LET id == Cur(t)
           type == AssetType(id)
           r == thr[t]
       IN /\ assets' = [assets EXCEPT ![id].health_score = TickHealth(type, r.br, r.hs)]
          /\ IF type = "CircuitBreaker" /\ r.br = "fault"
             THEN Goto(t, [r EXCEPT !.sub = "stamp"])
             ELSE Goto(t, Advance(r))
    /\ UNCHANGED <<faults, is_running, simulation_thread, opendss_results, metrics,
                   websocket_clients, cal, ws, ticks, feed, script>>
    /\ History

\* asset.status = ... (lines 359, 397-403, 439-445, 458, 501-504)
WrStatus(t) ==
    /\ AtSub(t, "status")
    /\ LET id == Cur(t)
           type == AssetType(id)
           r == thr[t]
           st == CASE type = "GridConnection" ->
                        IF opendss_results.converged THEN "healthy" ELSE "warning"
                   [] type = "CircuitBreaker" -> "healthy"
                   [] type = "IndustrialLoad" -> LoadBranch(assets[id].power)
                   [] OTHER -> r.br
       IN /\ assets' = [assets EXCEPT ![id].status = st]
          /\ Goto(t, Advance([r EXCEPT !.br = st]))
    /\ UNCHANGED <<faults, is_running, simulation_thread, opendss_results, metrics,
                   websocket_clients, cal, ws, ticks, feed, script>>
    /\ History

\* asset.timestamp = current_time
Stamp(t) ==
    /\ AtSub(t, "stamp")
    /\ assets' = [assets EXCEPT ![Cur(t)].timestamp = thr[t].now]
    /\ Goto(t, Advance(thr[t]))
    /\ UNCHANGED <<faults, is_running, simulation_thread, opendss_results, metrics,
                   websocket_clients, cal, ws, ticks, feed, script>>
    /\ History

\* _update_substation_metrics, lines 515-539: everything but grid_connection.
\* total_power_mw + total_losses_mw raises on a None, before any field is written.
Metrics1(t) ==
    /\ thr[t].pc = "metrics1"
    /\ LET res == opendss_results
           total == Abs(res.total_power_kw)
           input == total + res.total_losses_mw
       IN IF res.total_losses_mw = NoneV
          THEN /\ Goto(t, [thr[t] EXCEPT !.pc = "except", !.err = "metrics"])
               /\ UNCHANGED metrics
          ELSE /\ metrics' = [metrics EXCEPT
                      !.efficiency = IF input > 0 THEN (total * 100) \div input ELSE 0,
                      !.voltage_stability = Max(0, 100 - (res.max_voltage_pu - res.min_voltage_pu)),
                      !.total_power = total,
                      !.total_load = total,
                      !.timestamp = ticks,
                      !.frequency = 5000 + thr[t].in.fjit]
               /\ Goto(t, [thr[t] EXCEPT !.pc = "metrics2"])
    /\ UNCHANGED <<faults, is_running, simulation_thread, opendss_results, assets,
                   websocket_clients, cal, ws, ticks, feed, script>>
    /\ History

\* lines 540-543
GridConnected(res, as) ==
    /\ res.converged
    /\ \A id \in DOMAIN as : as[id].asset_type = "GridConnection" => as[id].status # "fault"

Metrics2(t) ==
    /\ thr[t].pc = "metrics2"
    /\ metrics' = [metrics EXCEPT !.grid_connection = GridConnected(opendss_results, assets)]
    /\ Goto(t, [thr[t] EXCEPT !.pc = "analyze"])
    /\ UNCHANGED <<faults, is_running, simulation_thread, opendss_results, assets,
                   websocket_clients, cal, ws, ticks, feed, script>>
    /\ History

\* an analysis step without its own try: the exception reaches the loop's except clause
AnalyzeErrorEscapes == "except"

\* lines 572-573: an exception in the analysis is logged and the function
\* returns, so the loop goes on to _broadcast_updates
OnAnalyzeError == "broadcast"

\* _run_ai_analysis (lines 545-573): the analyzer is called with the registry
\* and the metrics as they are now (line 552); whatever it does, raising
\* included, stays inside the function, and what it returns is only logged
Analyze(t) ==
    /\ thr[t].pc = "analyze"
    /\ \E outcome \in {"ok", "raise"} :
          Goto(t, [thr[t] EXCEPT !.pc = IF outcome = "raise" THEN OnAnalyzeError ELSE "broadcast",
                                 !.ai = outcome,
                                 !.given = [type |-> "state", assets |-> assets,
                                            metrics |-> metrics]])
    /\ UNCHANGED <<faults, is_running, simulation_thread, opendss_results, assets, metrics,
                   websocket_clients, cal, ws, ticks, feed, script>>
    /\ History

\* update_data, lines 600-605: copies of the registry and of the metrics
UpdateData(as, m, now) == [type |-> "update", assets |-> as, metrics |-> m, timestamp |-> now]

\* _broadcast_updates, lines 599-608: update_data is built from the registry
\* and the metrics as they are when the function runs
Broadcast(t) ==
    /\ thr[t].pc = "broadcast"
    /\ IF websocket_clients = <<>>
       THEN Goto(t, [thr[t] EXCEPT !.pc = "sleep", !.given = NoData])
       ELSE Goto(t, [thr[t] EXCEPT !.pc = "bsend", !.k = 1, !.disc = <<>>,
                                   !.given = NoData,
                                   !.data = UpdateData(assets, metrics, ticks)])
    /\ UNCHANGED <<faults, is_running, simulation_thread, opendss_results, assets, metrics,
                   websocket_clients, cal, ws, ticks, feed, script>>
    /\ History

\* a publish whose sends are not guarded: the exception leaves the function
SendAborts(r, client) == [r EXCEPT !.pc = "except", !.err = "broadcast", !.disc = <<>>]

\* lines 612-613: the send to client raised; the client is noted and the loop goes on
SendFailed(r, client) == [r EXCEPT !.k = r.k + 1, !.disc = Append(r.disc, client)]

\* a publish that waits for the send it has started to complete
SendAwaited(r) == [r EXCEPT !.pc = "bwait"]

\* line 611: create_task hands the send to the event loop and returns; the
\* loop thread goes on to the next client whatever becomes of the send
SendScheduled(r) == [r EXCEPT !.k = r.k + 1]

\* one turn of "for client in self.websocket_clients" (lines 609-613); the
\* list iterator is an index into the live list
BSend(t) ==
    /\ thr[t].pc = "bsend"
    /\ LET r == thr[t]
       IN IF r.k > Len(websocket_clients)
          THEN Goto(t, [r EXCEPT !.pc = "bremove", !.k = 0])
          ELSE \E o \in SendOutcomes :
                  IF o = "raise"
                  THEN Goto(t, SendFailed(r, websocket_clients[r.k]))
                  ELSE Goto(t, SendScheduled(r))
    /\ UNCHANGED <<faults, is_running, simulation_thread, opendss_results, assets, metrics,
                   websocket_clients, cal, ws, ticks, feed, script>>
    /\ History

\* list.remove(x): the list without its first x
RECURSIVE Remove(_, _)
Remove(list, x) ==
    IF list = <<>> THEN <<>>
    ELSE IF Head(list) = x THEN Tail(list)
    ELSE <<Head(list)>> \o Remove(Tail(list), x)

Members(list) == {list[n] : n \in 1..Len(list)}

\* one turn of "for client in disconnected" (lines 616-617); remove raises
\* ValueError when the client is no longer in the list
BRemove(t) ==
    /\ thr[t].pc = "bremove"
    /\ LET r == thr[t]
       IN IF r.disc = <<>>
          THEN /\ Goto(t, [r EXCEPT !.pc = "sleep"])
               /\ UNCHANGED websocket_clients
          ELSE IF Head(r.disc) \in Members(websocket_clients)
               THEN /\ websocket_clients' = Remove(websocket_clients, Head(r.disc))
                    /\ Goto(t, [r EXCEPT !.disc = Tail(r.disc)])
               ELSE /\ Goto(t, [r EXCEPT !.pc = "except", !.err = "broadcast", !.disc = <<>>])
                    /\ UNCHANGED websocket_clients
    /\ UNCHANGED <<faults, is_running, simulation_thread, opendss_results, assets, metrics,
                   cal, ws, ticks, feed, script>>
    /\ History

\* the locals are dead once the iteration is over
NextIteration(r) == [IdleThread EXCEPT !.pc = "loop"]

\* time.sleep(1.0) at the end of the try block
Sleep(t) ==
    /\ thr[t].pc = "sleep"
    /\ Goto(t, NextIteration(thr[t]))
    /\ UNCHANGED <<faults, is_running, simulation_thread, opendss_results, assets, metrics,
                   websocket_clients, cal, ws, ticks, feed, script>>
    /\ History

\* a loop whose try sits outside the while: the exception ends the thread
LoopDies(r) == [IdleThread EXCEPT !.pc = "dead"]

\* after the except clause the thread is back at the head of the while loop
Recover(r) == NextIteration(r)

\* except Exception: log, sleep (lines 337-339)
Except(t) ==
    /\ thr[t].pc = "except"
    /\ Goto(t, Recover(thr[t]))
    /\ UNCHANGED <<faults, is_running, simulation_thread, opendss_results, assets, metrics,
                   websocket_clients, cal, ws, ticks, feed, script>>
    /\ History

ThreadStep(t) ==
    \/ Loop(t) \/ Solve(t) \/ UpdEnter(t)
    \/ Elec(t) \/ Temp(t) \/ Rd(t) \/ RdSt(t) \/ RdHs(t) \/ WrHs(t) \/ WrStatus(t) \/ Stamp(t)
    \/ Metrics1(t) \/ Metrics2(t) \/ Analyze(t)
    \/ Broadcast(t) \/ BSend(t) \/ BRemove(t)
    \/ Sleep(t) \/ Except(t)

-----------------------------------------------------------------------------
\* The entry points, each called from some context c other than the loop's.

Call(c, r) == cal' = [cal EXCEPT ![c] = r]
\* c is outside any call and its next call is op
Begins(c, op) ==
    /\ cal[c].pc = "idle"
    /\ script[c] # <<>>
    /\ Head(script[c]).op = op
    /\ script' = [script EXCEPT ![c] = Tail(script[c])]
Return(c, how) == Call(c, [IdleCaller EXCEPT !.ret = how])

Unborn == {t \in Threads : thr[t].pc = "unborn"}
Starting == {c \in Callers : cal[c].pc \in {"start_set", "start_new"}}

\* a start_simulation that does not look at the flag
StartUnguarded(running) == TRUE

\* the guard of start_simulation: if not self.is_running
StartGuard(running) == ~running

\* start_simulation, line 300
StartCheck(c) ==
    /\ Begins(c, "start")
    /\ IF StartGuard(is_running)
       THEN /\ Cardinality(Unborn) > Cardinality(Starting)
            /\ Call(c, [IdleCaller EXCEPT !.pc = "start_set"])
       ELSE Return(c, "ok")
    /\ UNCHANGED <<faults, is_running, simulation_thread, opendss_results, assets, metrics,
                   websocket_clients, thr, ws, ticks, feed>>
    /\ History

\* line 301
StartSet(c) ==
    /\ cal[c].pc = "start_set"
    /\ is_running' = TRUE
    /\ Call(c, [cal[c] EXCEPT !.pc = "start_new"])
    /\ UNCHANGED <<faults, simulation_thread, opendss_results, assets, metrics,
                   websocket_clients, thr, ws, ticks, feed, script>>
    /\ History

\* line 302: a new Thread object, not yet started, is bound to self.simulation_thread
StartNew(c) ==
    /\ cal[c].pc = "start_new"
    /\ LET n == CHOOSE m \in 1..Len(ThreadOrder) :
                    /\ ThreadOrder[m] \in Unborn
                    /\ \A l \in 1..(m - 1) : ThreadOrder[l] \notin Unborn
           t == ThreadOrder[n]
       IN /\ thr' = [thr EXCEPT ![t].pc = "created"]
          /\ simulation_thread' = t
    /\ Call(c, [cal[c] EXCEPT !.pc = "start_run"])
    /\ UNCHANGED <<faults, is_running, opendss_results, assets, metrics, websocket_clients,
                   ws, ticks, feed, script>>
    /\ History

\* lines 303-304: self.simulation_thread is read again; starting a thread that
\* was already started raises RuntimeError
StartRun(c) ==
    /\ cal[c].pc = "start_run"
    /\ IF thr[simulation_thread].pc = "created"
       THEN /\ thr' = [thr EXCEPT ![simulation_thread].pc = "loop"]
            /\ Return(c, "ok")
       ELSE /\ Return(c, "error")
            /\ UNCHANGED thr
    /\ UNCHANGED <<faults, is_running, simulation_thread, opendss_results, assets, metrics,
                   websocket_clients, ws, ticks, feed, script>>
    /\ History

\* stop_simulation, line 309
StopSet(c) ==
    /\ Begins(c, "stop")
    /\ is_running' = FALSE
    /\ Call(c, [IdleCaller EXCEPT !.pc = "stop_read"])
    /\ UNCHANGED <<faults, simulation_thread, opendss_results, assets, metrics,
                   websocket_clients, thr, ws, ticks, feed>>
    /\ History

\* lines 310-311: join is called on the thread self.simulation_thread names;
\* joining a thread that was not started raises RuntimeError
StopRead(c) ==
    /\ cal[c].pc = "stop_read"
    /\ IF simulation_thread = NoThread
       THEN Return(c, "ok")
       ELSE IF thr[simulation_thread].pc = "created"
            THEN Return(c, "error")
            ELSE Call(c, [cal[c] EXCEPT !.pc = "stop_join", !.target = simulation_thread])
    /\ UNCHANGED <<faults, is_running, simulation_thread, opendss_results, assets, metrics,
                   websocket_clients, thr, ws, ticks, feed, script>>
    /\ History

\* join() returns once the thread has left _simulation_loop
StopJoin(c) ==
    /\ cal[c].pc = "stop_join"
    /\ thr[cal[c].target].pc = "dead"
    /\ Return(c, "ok")
    /\ UNCHANGED <<faults, is_running, simulation_thread, opendss_results, assets, metrics,
                   websocket_clients, thr, ws, ticks, feed, script>>
    /\ History

\* control_asset, lines 621-633 and 637: the lookup, the choice of the branch
\* and the write of asset.status; ValueError for an unknown asset or action
Control(c) ==
    /\ Begins(c, "control")
    /\ LET id == Head(script[c]).id
           action == Head(script[c]).action
       IN
       IF id \in AssetIds /\ ControlValid(action, AssetType(id))
       THEN /\ assets' = [assets EXCEPT ![id].status = ControlStatus(action)]
            /\ IF ControlTouchesHealth(action)
               THEN Call(c, [IdleCaller EXCEPT !.pc = "ctl_read", !.id = id, !.action = action])
               ELSE Return(c, "ok")
       ELSE /\ Return(c, "error")
            /\ UNCHANGED assets
    /\ UNCHANGED <<faults, is_running, simulation_thread, opendss_results, metrics,
                   websocket_clients, thr, ws, ticks, feed>>
    /\ History

\* the read of asset.health_score in lines 634 and 638
ControlRead(c) ==
    /\ cal[c].pc = "ctl_read"
    /\ Call(c, [cal[c] EXCEPT !.pc = "ctl_write", !.hs = assets[cal[c].id].health_score])
    /\ UNCHANGED <<faults, is_running, simulation_thread, opendss_results, assets, metrics,
                   websocket_clients, thr, ws, ticks, feed, script>>
    /\ History

\* the write of asset.health_score, and the return
ControlWrite(c) ==
    /\ cal[c].pc = "ctl_write"
    /\ assets' = [assets EXCEPT
                    ![cal[c].id].health_score = ControlHealth(cal[c].action, cal[c].hs)]
    /\ Return(c, "ok")
    /\ UNCHANGED <<faults, is_running, simulation_thread, opendss_results, metrics,
                   websocket_clients, thr, ws, ticks, feed, script>>
    /\ History

\* an accessor that hands out the object the twin itself goes on writing
ReturnsTwinObject == TRUE

\* asdict (lines 669, 673, 677, 681) builds new dicts: what an accessor
\* returns shares nothing with the twin
SharesWithTwin == FALSE

\* get_all_assets (lines 671-673): the copy it returns, in the order of the dict
GetAllAssets(c) ==
    /\ Begins(c, "assets")
    /\ Call(c, [IdleCaller EXCEPT !.pc = "got_assets", !.alias = SharesWithTwin,
                  !.snap = [k \in 1..Len(UpdateOrder) |-> assets[UpdateOrder[k]]]])
    /\ UNCHANGED <<faults, is_running, simulation_thread, opendss_results, assets, metrics,
                   websocket_clients, thr, ws, ticks, feed>>
    /\ History

\* get_substation_metrics (lines 675-677)
GetMetrics(c) ==
    /\ Begins(c, "metrics")
    /\ Call(c, [IdleCaller EXCEPT !.pc = "got_metrics", !.alias = SharesWithTwin,
                  !.snap = <<metrics>>])
    /\ UNCHANGED <<faults, is_running, simulation_thread, opendss_results, assets, metrics,
                   websocket_clients, thr, ws, ticks, feed>>
    /\ History

\* get_asset_status (lines 664-669); ValueError for an unknown asset
GetAssetStatus(c) ==
    /\ Begins(c, "asset")
    /\ LET id == Head(script[c]).id
       IN IF id \in AssetIds
          THEN Call(c, [IdleCaller EXCEPT !.pc = "got_asset", !.id = id,
                          !.alias = SharesWithTwin, !.snap = <<assets[id]>>])
          ELSE Return(c, "error")
    /\ UNCHANGED <<faults, is_running, simulation_thread, opendss_results, assets, metrics,
                   websocket_clients, thr, ws, ticks, feed>>
    /\ History

\* get_fault_history (lines 679-681)
GetFaultHistory(c) ==
    /\ Begins(c, "faults")
    /\ Call(c, [IdleCaller EXCEPT !.pc = "got_faults", !.alias = SharesWithTwin,
                  !.snap = faults])
    /\ UNCHANGED <<faults, is_running, simulation_thread, opendss_results, assets, metrics,
                   websocket_clients, thr, ws, ticks, feed>>
    /\ History

\* the positions in which a context holds a value an accessor returned
Holding == {"got_assets", "got_asset", "got_metrics", "got_faults"}

\* the caller empties the copy it was given (dict.clear(), list.clear())
Scribble(c) ==
    /\ cal[c].pc \in Holding
    /\ ~cal[c].alias
    /\ Call(c, [cal[c] EXCEPT !.pc = "edited", !.snap = <<>>])
    /\ UNCHANGED <<faults, is_running, simulation_thread, opendss_results, assets, metrics,
                   websocket_clients, thr, ws, ticks, feed, script>>
    /\ History

\* the caller is done with the copy
Got(c) ==
    /\ cal[c].pc \in Holding \cup {"edited"}
    /\ Return(c, "ok")
    /\ UNCHANGED <<faults, is_running, simulation_thread, opendss_results, assets, metrics,
                   websocket_clients, thr, ws, ticks, feed, script>>
    /\ History

\* websocket_endpoint, lines 1109-1110: accept, then append
WsConnect(c) ==
    /\ Begins(c, "connect")
    /\ LET w == Head(script[c]).id
       IN /\ ws[w] = "new"
          /\ websocket_clients' = Append(websocket_clients, w)
          /\ ws' = [ws EXCEPT ![w] = "open"]
    /\ Return(c, "ok")
    /\ UNCHANGED <<faults, is_running, simulation_thread, opendss_results, assets, metrics,
                   thr, ticks, feed>>
    /\ History

\* lines 1116-1117: on WebSocketDisconnect the handler removes the socket;
\* remove raises ValueError when a publish has removed it already
WsDisconnect(c) ==
    /\ Begins(c, "disconnect")
    /\ LET w == Head(script[c]).id
       IN /\ ws[w] = "open"
          /\ IF w \in Members(websocket_clients)
             THEN /\ websocket_clients' = Remove(websocket_clients, w)
                  /\ ws' = [ws EXCEPT ![w] = "gone"]
                  /\ Return(c, "ok")
             ELSE /\ ws' = [ws EXCEPT ![w] = "error"]
                  /\ Return(c, "error")
                  /\ UNCHANGED websocket_clients
    /\ UNCHANGED <<faults, is_running, simulation_thread, opendss_results, assets, metrics,
                   thr, ticks, feed>>
    /\ History

\* the FaultAnalysis record of lines 648-656; the draws of np.random.uniform
\* for impedance, current and clearance time are left out
FaultRecord(type, location, now) ==
    [fault_type |-> type, fault_location |-> location, protection_operation |-> TRUE,
     timestamp |-> now]

\* a ledger that keeps the newest record first
NewestFirst(list, record) == <<record>> \o list

\* line 658: self.faults.append(fault)
Recorded(list, record) == Append(list, record)

\* run_fault_analysis, lines 648-658: the record is built and appended
FaultAppend(c) ==
    /\ Begins(c, "fault")
    /\ faults' = Recorded(faults, FaultRecord(Head(script[c]).action, Head(script[c]).id, ticks))
    /\ Call(c, [IdleCaller EXCEPT !.pc = "fc_read"])
    /\ UNCHANGED <<is_running, simulation_thread, opendss_results, assets, metrics,
                   websocket_clients, thr, ws, ticks, feed>>
    /\ History

\* line 659, self.metrics.fault_count += 1: the read
FaultRead(c) ==
    /\ cal[c].pc = "fc_read"
    /\ Call(c, [cal[c] EXCEPT !.pc = "fc_write", !.hs = metrics.fault_count])
    /\ UNCHANGED <<faults, is_running, simulation_thread, opendss_results, assets, metrics,
                   websocket_clients, thr, ws, ticks, feed, script>>
    /\ History

\* line 659: the write, and the return of the record's copy
FaultWrite(c) ==
    /\ cal[c].pc = "fc_write"
    /\ metrics' = [metrics EXCEPT !.fault_count = cal[c].hs + 1]
    /\ Return(c, "ok")
    /\ UNCHANGED <<faults, is_running, simulation_thread, opendss_results, assets,
                   websocket_clients, thr, ws, ticks, feed, script>>
    /\ History

CallerStep(c) ==
    \/ StartCheck(c) \/ StartSet(c) \/ StartNew(c) \/ StartRun(c)
    \/ StopSet(c) \/ StopRead(c) \/ StopJoin(c)
    \/ Control(c) \/ ControlRead(c) \/ ControlWrite(c)
    \/ GetAllAssets(c) \/ GetMetrics(c) \/ GetAssetStatus(c) \/ GetFaultHistory(c)
    \/ Scribble(c) \/ Got(c)
    \/ WsConnect(c) \/ WsDisconnect(c)
    \/ FaultAppend(c) \/ FaultRead(c) \/ FaultWrite(c)

-----------------------------------------------------------------------------
Next ==
    \/ \E t \in Threads : ThreadStep(t)
    \/ \E c \in Callers : CallerStep(c)

Spec == Init /\ [][Next]_vars

\* The operating system gives every started thread its turn, time.sleep
\* returns, and a context that is inside a call gets its turn as well.
LiveSpec ==
    /\ LiveInit
    /\ [][Next]_vars
    /\ \A t \in Threads : WF_vars(ThreadStep(t))
    /\ \A c \in Callers : WF_vars(CallerStep(c))

-----------------------------------------------------------------------------
\* One asset's update run with nothing else running: the reference for what
\* "the tick, then the command" and "the command, then the tick" leave behind.

\* the update gets as far as the status and health_score of asset id
UpdateReaches(in, id) ==
    /\ ~in.raises
    /\ in.dss
    /\ \A k \in 1..Len(UpdateOrder) :
          (\E j \in k..Len(UpdateOrder) : UpdateOrder[j] = id)
             => LET type == AssetType(UpdateOrder[k])
                IN type \in {"GridConnection", "PowerTransformer", "DistributionTransformer"}
                      => ElecVoltage(type, in.res) # NoneV

SerialTick(id, in, a) ==
    LET type == AssetType(id)
        p == IF type = "IndustrialLoad" THEN LoadPower(in) ELSE TransformerPower(type, in, in.res)
        br == CASE type \in {"PowerTransformer", "DistributionTransformer"} ->
                     ThermalBranch(type, TickTemp(type, p, in.jitter))
                [] type = "CircuitBreaker" -> IF a.status = "fault" THEN "fault" ELSE "other"
                [] OTHER -> LoadBranch(p)
    IN IF ~UpdateReaches(in, id) THEN a
       ELSE IF type = "GridConnection"
            THEN [a EXCEPT !.status = IF in.res.converged THEN "healthy" ELSE "warning"]
            ELSE [a EXCEPT !.health_score = TickHealth(type, br, a.health_score),
                           !.status = IF type = "CircuitBreaker"
                                      THEN IF br = "fault" THEN a.status ELSE "healthy"
                                      ELSE br]

\* ticks n..MaxTicks on asset id, the command applied just before tick `at`
\* (after the last tick when at = MaxTicks + 1)
RECURSIVE SerialRun(_, _, _, _, _)
SerialRun(a, n, at, id, action) ==
    LET b == IF at = n THEN ApplyControl(action, a) ELSE a
    IN IF n > MaxTicks THEN b
       ELSE SerialRun(SerialTick(id, FeedAt(feed, n), b), n + 1, at, id, action)

Observed(a) == <<a.status, a.health_score>>

SerialOutcomes(id, action) ==
    {Observed(SerialRun(boot.assets[id], 1, at, id, action)) : at \in 1..(MaxTicks + 1)}

\* every call has returned and the one loop has run all its iterations
Quiescent ==
    /\ ticks = MaxTicks
    /\ \A c \in Callers : cal[c].pc = "idle" /\ script[c] = <<>>
    /\ \A t \in Threads : thr[t].pc \in {"unborn", "loop"}

\* nothing but thread t's own tick writes the registry or the metrics in this run
NoOtherWriter(t) ==
    /\ \A u \in Threads \ {t} : thr[u].pc = "unborn"
    /\ \A c \in Callers : \A k \in 1..Len(boot.script[c]) : boot.script[c][k].op # "control"

SnapshotOf(as) == [k \in 1..Len(UpdateOrder) |-> as[UpdateOrder[k]]]

Raised(t) == thr[t].err # "none" \/ thr[t].ai = "raise"

StageOf(pc) ==
    CASE pc = "solve" -> 1
      [] pc \in {"upd", "asset"} -> 2
      [] pc \in {"metrics1", "metrics2"} -> 3
      [] pc = "analyze" -> 4
      [] pc \in {"broadcast", "bsend", "bremove"} -> 5
      [] pc = "sleep" -> 6
      [] OTHER -> 0

Looping == {t \in Threads : thr[t].pc \notin {"unborn", "created", "dead"}}

-----------------------------------------------------------------------------
\* C1: in every reachable state, after any ticks and control commands in any
\* order, every asset's health_score lies in [0, 100] (0..2000 in units of 0.05).
C1_HealthInRange == \A id \in AssetIds : assets[id].health_score \in 0..2000

\* a tick has just written the health_score of a breaker it found in fault
\* with less than the penalty left, and the floor held
C1_Clamped ==
    \E t \in Threads :
        /\ thr[t].pc = "asset"
        /\ Cur(t) = "CB_1"
        /\ thr[t].sub = "stamp"
        /\ thr[t].br = "fault"
        /\ thr[t].hs < 20
        /\ assets["CB_1"].health_score = 0

\* C2: a tick's update of an asset and a control command on the same asset
\* never interleave: once the loop has run its iterations and the one command
\* of the run has returned, the asset's status and health_score are what some
\* serial order of the ticks and the command leaves.
C2_Serializable ==
    \A cmd \in Commands :
        (/\ boot.script = Two(<<StartCall>>, <<cmd>>)
         /\ cmd.id \in AssetIds
         /\ ControlValid(cmd.action, AssetType(cmd.id))
         /\ Quiescent)
        => Observed(assets[cmd.id]) \in SerialOutcomes(cmd.id, cmd.action)

\* C3: the value a read accessor returns is the registry (the metrics) as it
\* stood when no writer was part-way through an update.
C3_SnapshotSettled ==
    [][\A c \in Callers :
          /\ (cal[c].pc = "idle" /\ cal'[c].pc = "got_assets")
                => cal'[c].snap = SnapshotOf(settled'.assets)
          /\ (cal[c].pc = "idle" /\ cal'[c].pc = "got_metrics")
                => cal'[c].snap = <<settled'.metrics>>]_vars

\* C4: the steps of an iteration whose solve raised change no asset field and
\* no metrics field.
C4_FailedSolveChangesNothing ==
    [][\A t \in Threads :
          (/\ thr'[t] # thr[t]
           /\ \/ thr[t].pc = "solve" /\ FeedAt(feed, thr[t].n).raises
              \/ thr[t].err = "solve")
          => assets' = assets /\ metrics' = metrics]_vars

\* the solve has raised and the thread is in the except clause
C4_SolveRaised == \E t \in Threads : thr[t].pc = "except" /\ thr[t].err = "solve"

\* C5: an exception raised after the solve, in the registry update or in the
\* metrics recompute, makes the whole tick a no-op: the registry and the
\* metrics are what they were when the tick began.
C5_FailedTickIsNoOp ==
    \A t \in Threads :
        (thr[t].err \in {"update", "metrics"} /\ NoOtherWriter(t))
        => assets = pre[t].assets /\ metrics = pre[t].metrics

\* C6: while the simulation is running, a tick in which something raised is
\* followed by the next tick (MaxTicks is where the model stops counting).
C6_NextTickRuns ==
    \A t \in Threads :
        Raised(t) ~> (thr[t].pc = "solve" \/ ~is_running \/ ticks = MaxTicks)

\* the only loop thread is in its second iteration after a first whose solve raised
C6_TickAfterFailure ==
    \E t \in Threads :
        /\ thr[t].pc = "solve"
        /\ thr[t].n = 2
        /\ FeedAt(feed, 1).raises
        /\ \A u \in Threads \ {t} : thr[u].pc = "unborn"

\* C7: the steps of a tick come in the order solve, registry update, metrics
\* recompute, analyze, broadcast, and no tick starts while another tick is
\* neither finished nor abandoned.
C7_StepOrder ==
    [][\A t \in Threads :
          LET a == thr[t].pc
              b == thr'[t].pc
          IN a # b =>
               \/ a = "unborn" /\ b = "created"
               \/ a = "created" /\ b = "loop"
               \/ a = "loop" /\ b = "dead"
               \/ a = "loop" /\ b = "solve" /\ \A u \in Threads \ {t} : ~InTick(thr[u])
               \/ StageOf(a) \in 1..5 /\ b = "except"
               \/ StageOf(a) \in 1..5 /\ StageOf(b) = StageOf(a) + 1
               \/ StageOf(a) \in 1..5 /\ StageOf(b) = StageOf(a)
               \/ a \in {"sleep", "except"} /\ b = "loop"]_vars

\* C8: at most one thread is ever in the tick loop.
C8_SingleFlight == Cardinality(Looping) <= 1

\* C9: start_simulation on a running twin returns at once and changes nothing;
\* stop_simulation on a twin with no live loop thread and no start under way
\* leaves it stopped and does not raise.
C9_Idempotent ==
    [][\A c \in Callers :
          /\ (/\ cal[c].pc = "idle"
              /\ script[c] # <<>>
              /\ Head(script[c]).op = "start"
              /\ script'[c] # script[c]
              /\ is_running)
             => /\ cal'[c].pc = "idle"
                /\ cal'[c].ret = "ok"
                /\ UNCHANGED <<is_running, simulation_thread, thr>>
          /\ (/\ cal[c].pc \in {"stop_read", "stop_join"}
              /\ cal'[c] # cal[c]
              /\ Looping = {}
              /\ ~MidStart(cal))
             => /\ cal'[c].ret # "error"
                /\ ~is_running'
                /\ UNCHANGED <<simulation_thread, thr>>]_vars

\* the second of two start calls in a row has returned: one loop thread, no other
C9_SecondStartReturned ==
    /\ boot.script = Two(<<StopCall, StartCall, StartCall, StopCall, StopCall>>, <<>>)
    /\ Len(script["c1"]) = 2
    /\ cal["c1"].pc = "idle"
    /\ cal["c1"].ret = "ok"
    /\ is_running
    /\ Cardinality(Looping) = 1
    /\ \E t \in Threads : thr[t].pc = "unborn"

\* C10: once stop_simulation has returned, and until start_simulation is
\* called again, no thread is inside a tick.
C10_StoppedMeansNoTick == halted => \A t \in Threads : ~InTick(thr[t])

-----------------------------------------------------------------------------
\* The sends of a publish call.

\* the clients whose send raised in the publish call recorded in p
Failing(p) == {p.tried[k].to : k \in {j \in 1..Len(p.tried) : ~p.tried[j].ok}}

\* the sends of the call that went to client w (all of them, or those that did not raise)
Attempts(p, w) == {k \in 1..Len(p.tried) : p.tried[k].to = w}
SentTo(p, w) == {k \in Attempts(p, w) : p.tried[k].ok}

\* C11: a publish call during which nothing else registers or unregisters a
\* subscriber sends one and the same snapshot to every subscriber whose send
\* does not raise, whatever the sends to the others do, and leaves the
\* subscriber list as it found it less exactly the subscribers whose send raised.
C11_BroadcastIsolation ==
    \A t \in Threads :
        LET p == pub[t]
        IN (p.state = "closed" /\ ~p.touched)
           => /\ \A w \in Members(p.before) \ Failing(p) : Cardinality(SentTo(p, w)) = 1
              /\ \A j, k \in 1..Len(p.tried) : p.tried[j].msg = p.tried[k].msg
              /\ websocket_clients = SelectSeq(p.before, LAMBDA w : w \notin Failing(p))

\* a publish call over two subscribers is over: the send to the first raised,
\* the second was sent the snapshot and is the one left in the list
C11_OneFailedOneSent ==
    \E t \in Threads :
        LET p == pub[t]
        IN /\ p.state = "closed"
           /\ ~p.touched
           /\ Len(p.before) = 2
           /\ Failing(p) = {p.before[1]}
           /\ Cardinality(SentTo(p, p.before[2])) = 1
           /\ websocket_clients = <<p.before[2]>>

\* C12: a subscriber is never sent the update of a tick that was over before
\* the subscriber was appended to the client list; what it is sent starts with
\* the tick under way, or the next one, at the time it was appended.
C12_NoReplay == \A w \in Sockets : got[w] \cap joined[w] = {}

\* a subscriber appended after the first tick was over has been sent the
\* update of a later tick
C12_LateSubscriberServed ==
    \E w \in Sockets : joined[w] # {} /\ got[w] # {} /\ \A n \in got[w] : n \notin joined[w]

\* C13: a tick that gets through solve, registry update, metrics recompute and
\* analyze makes one publish call, in which every subscriber that is in the
\* client list from the start of the call to its end is tried exactly once;
\* a tick that an exception ends before the broadcast step makes none.
C13_OncePerTick ==
    \A t \in Threads :
        /\ (thr[t].pc = "sleep" /\ pub[t].n = thr[t].n)
              => \A w \in Members(pub[t].before) \cap Members(websocket_clients) :
                    Cardinality(Attempts(pub[t], w)) = 1
        /\ (thr[t].pc = "except" /\ thr[t].err \in {"solve", "metrics"})
              => pub[t].n # thr[t].n

\* C14: when a trip command returns, the asset it was given has status fault
\* and the health_score the command found less 10 (200 units), not below 0,
\* whatever a tick running at the same time does.
C14_TripHolds ==
    [][\A c \in Callers :
          (cal[c].pc = "ctl_write" /\ cal[c].action = "trip" /\ cal'[c].pc = "idle")
          => /\ assets'[cal[c].id].status = "fault"
             /\ assets'[cal[c].id].health_score = Max(0, cal[c].hs - 200)]_vars

\* C15: with no tick in between, two reset commands in a row leave the asset
\* with the status and the health_score that one reset leaves.
C15_ResetIdempotent ==
    (boot.script = ResetTwice /\ script["c1"] = <<>> /\ cal["c1"].pc = "idle")
    => Observed(assets["CB_1"]) = Observed(ApplyControl("reset", boot.assets["CB_1"]))

\* C16: control_asset with an unknown asset id, with open or close on an asset
\* that is not a circuit breaker, or with an action other than open, close,
\* trip and reset returns an error and changes no asset, no metrics field, no
\* entry of the fault list, and nothing of the loop (the flag and the threads).
C16_RejectedCommandNoEffect ==
    [][\A c \in Callers :
          (/\ cal[c].pc = "idle"
           /\ script[c] # <<>>
           /\ script'[c] # script[c]
           /\ Head(script[c]).op = "control"
           /\ LET id == Head(script[c]).id
                  action == Head(script[c]).action
              IN \/ id \notin AssetIds
                 \/ action \notin Actions
                 \/ action \in {"open", "close"} /\ AssetType(id) # "CircuitBreaker")
          => /\ cal'[c].pc = "idle"
             /\ cal'[c].ret = "error"
             /\ UNCHANGED <<assets, metrics, faults, is_running, simulation_thread, thr>>]_vars

\* an open command on a transformer has been turned down while a tick was under way
C16_OpenOnTransformerRejected ==
    /\ boot.script = Two(<<StartCall>>, <<ControlCall("DTX1_220_33", "open")>>)
    /\ script["c2"] = <<>>
    /\ cal["c2"].pc = "idle"
    /\ cal["c2"].ret = "error"
    /\ \E t \in Threads : thr[t].pc = "asset"

\* C17: the status a tick writes to a transformer follows from the temperature
\* the tick tested and from nothing else: fault above the fault threshold, else
\* warning above the warning threshold, else healthy, with thresholds 70 and 85
\* degrees for a PowerTransformer and 75 and 90 for a DistributionTransformer;
\* and with one loop thread running, the status written is the one that goes
\* with the temperature the asset holds, so none is left healthy above its
\* fault threshold.
C17_StatusFromTemperature ==
    [][\A t \in Threads :
          (thr[t].pc = "asset" /\ thr'[t] # thr[t]
           /\ AssetType(Cur(t)) \in {"PowerTransformer", "DistributionTransformer"})
          => LET id == Cur(t)
                 power == AssetType(id) = "PowerTransformer"
                 warning == IF power THEN 700 ELSE 750
                 fault == IF power THEN 850 ELSE 900
                 StatusAt(temperature) ==
                     IF temperature > fault THEN "fault"
                     ELSE IF temperature > warning THEN "warning" ELSE "healthy"
             IN /\ thr[t].sub = "rd" => thr'[t].br = StatusAt(assets[id].temperature)
                /\ thr[t].sub = "status"
                     => /\ assets'[id].status = thr[t].br
                        /\ Looping = {t} => assets'[id].status = StatusAt(assets'[id].temperature)]_vars

\* the tick has written warning to the power transformer at 76.5 degrees, whose
\* health_score ten trips had brought down to the floor
C17_WarmTransformerWarned ==
    \E t \in Threads :
        /\ thr[t].pc = "asset"
        /\ Cur(t) = "TX1_400_220"
        /\ thr[t].sub = "stamp"
        /\ assets["TX1_400_220"].temperature = 765
        /\ assets["TX1_400_220"].status = "warning"
        /\ boot.assets["TX1_400_220"].health_score = 0

\* C18: every metrics recompute sets grid_connection to "the solve converged
\* and no GridConnection asset has status fault", and a recompute that comes
\* after a trip command on the grid asset has returned sets it to FALSE.
C18_GridConnection ==
    [][\A t \in Threads :
          (thr[t].pc = "metrics2" /\ thr'[t].pc = "analyze")
          => /\ metrics'.grid_connection
                  = (opendss_results.converged /\ assets["Grid400kV"].status # "fault")
             /\ (/\ boot.script = Two(<<StartCall>>, <<ControlCall("Grid400kV", "trip")>>)
                 /\ script["c2"] = <<>>
                 /\ cal["c2"].pc = "idle")
                => ~metrics'.grid_connection]_vars

\* C19: when the analysis of a tick raises, the step changes no asset and no
\* metrics field and touches no caller, the tick goes on to its broadcast
\* step, where the update it builds is the registry and the metrics as they
\* stand with nothing from the analyzer in it, and the loop's except clause
\* is not entered on account of the analysis.
C19_AnalyzerFailureAbsorbed ==
    [][\A t \in Threads :
          /\ (thr[t].pc = "analyze" /\ thr'[t].ai = "raise")
                => /\ thr'[t].pc = "broadcast"
                   /\ thr'[t].err = thr[t].err
                   /\ UNCHANGED <<assets, metrics, cal, is_running>>
          /\ (thr[t].pc = "broadcast" /\ thr[t].ai = "raise" /\ thr'[t] # thr[t])
                => \/ thr'[t].pc = "sleep" /\ websocket_clients = <<>>
                   \/ thr'[t].pc = "bsend" /\ thr'[t].data = UpdateData(assets, metrics, ticks)
          /\ (thr[t].ai = "raise" /\ thr[t].pc # "except" /\ thr'[t].pc = "except")
                => thr[t].pc = "bremove"]_vars

\* a tick whose analysis raised has sent its update to a subscriber and is over
C19_PublishedAfterFailure ==
    \E t \in Threads :
        /\ thr[t].ai = "raise"
        /\ thr[t].pc = "sleep"
        /\ pub[t].n = thr[t].n
        /\ \E k \in 1..Len(pub[t].tried) : pub[t].tried[k].ok

\* C20: in every reachable state metrics.fault_count is the number of records
\* in the fault list, whatever runs at the same time as run_fault_analysis.
C20_FaultCountMatchesLedger == metrics.fault_count = Len(faults)

-----------------------------------------------------------------------------
\* The fault list over time.

\* list a is the beginning of list b
IsPrefix(a, b) == Len(a) <= Len(b) /\ \A k \in 1..Len(a) : a[k] = b[k]

\* C21: the fault list only grows at its end, one record at a time, and only
\* in the step of run_fault_analysis that appends: what it held before any
\* step is the beginning of what it holds after, and no step of a tick or of a
\* control command (trip included) adds, changes or removes a record.
C21_LedgerAppendOnly ==
    [][/\ IsPrefix(faults, faults')
       /\ faults' # faults
            => /\ Len(faults') = Len(faults) + 1
               /\ thr' = thr
               /\ \E c \in Callers :
                     /\ cal[c].pc = "idle"
                     /\ script[c] # <<>>
                     /\ Head(script[c]).op = "fault"
                     /\ cal'[c].pc = "fc_read"]_vars

\* both of two fault analyses have appended their record
C21_TwoRecords == Len(faults) = 2 /\ faults[1] # faults[2]

\* C22: no step of the program waits for a send that was handed to a
\* subscriber to complete (the model has no step in which one completes, so
\* every subscriber is one whose delivery never does): a tick that is
\* publishing finishes and its thread begins the next tick, unless the
\* simulation was stopped and the thread leaves the loop (MaxTicks is where
\* the model stops counting), and a control command under way after an update
\* was sent returns.
C22_SlowSubscriberNoStall ==
    /\ \A t \in Threads :
          thr[t].pc \in {"bsend", "bremove"}
             ~> \/ thr[t].pc = "solve"
                \/ thr[t].pc = "dead"
                \/ thr[t].pc = "loop" /\ ticks = MaxTicks
    /\ \A c \in Callers :
          (cal[c].pc \in {"ctl_read", "ctl_write"} /\ \E w \in Sockets : got[w] # {})
             ~> cal[c].pc = "idle"

\* an update was sent to the subscriber in the first tick, the second tick
\* has begun, and the trip command submitted after the send has returned
C22_TickAndCommandWentOn ==
    \E t \in Threads :
        /\ boot.script = TripWhilePublishing
        /\ got["w1"] = {1}
        /\ thr[t].n = 2
        /\ script["c1"] = <<>>
        /\ cal["c1"].pc = "idle"
        /\ cal["c1"].ret = "ok"
        /\ assets["CB_1"].status = "fault"

-----------------------------------------------------------------------------
\* What a caller holds after a read.

\* what the value context c was given reads as now
View(c) ==
    LET r == cal[c]
    IN IF ~r.alias THEN r.snap
       ELSE CASE r.pc = "got_assets" -> SnapshotOf(assets)
              [] r.pc = "got_asset" -> <<assets[r.id]>>
              [] r.pc = "got_metrics" -> <<metrics>>
              [] OTHER -> faults

\* C23: the value that get_all_assets, get_asset_status, get_substation_metrics
\* or get_fault_history returned reads the same after every step of a tick, of
\* a control command and of a fault analysis for as long as the caller holds
\* it, and the caller's changing it changes neither the registry nor the
\* metrics nor the fault list.
C23_ReturnedValueIsCopy ==
    [][\A c \in Callers :
          /\ (cal[c].pc \in Holding /\ cal'[c].pc = cal[c].pc /\ script'[c] = script[c])
                => View(c)' = View(c)
          /\ (cal[c].pc \in Holding /\ cal'[c].pc = "edited")
                => UNCHANGED <<assets, metrics, faults>>]_vars

\* the caller still holds the transformer's status as it was before the tick
\* rewrote it
C23_HeldAcrossTick ==
    /\ cal["c2"].pc = "got_asset"
    /\ cal["c2"].snap[1].timestamp = 0
    /\ assets["TX1_400_220"].timestamp = 1

-----------------------------------------------------------------------------
\* What is published against what was analyzed.

\* C24: the assets and the metrics of the update message a tick builds are
\* exactly the ones its analyze step was given, whatever a control command has
\* written between the analysis and the publication.  (The message has no
\* field for alerts at all: see UpdateData.)
C24_PublishesAnalyzedSnapshot ==
    [][\A t \in Threads :
          (thr[t].pc = "broadcast" /\ thr'[t].pc = "bsend")
             => /\ thr'[t].data.assets = thr[t].given.assets
                /\ thr'[t].data.metrics = thr[t].given.metrics]_vars

-----------------------------------------------------------------------------
\* The direction in which a tick moves an asset's health.

\* C25: when a tick writes an asset's health_score, the value written is not
\* above the one the tick read if the tick has derived warning or fault for the
\* asset, and not below it if the tick has derived healthy.
C25_HealthDriftDirection ==
    [][\A t \in Threads :
          (AtSub(t, "hs") /\ thr'[t] # thr[t])
             => LET id == Cur(t)
                    was == thr[t].hs
                    now == assets'[id].health_score
                IN IF thr[t].br \in {"warning", "fault"}
                   THEN now <= was
                   ELSE now >= was]_vars

-----------------------------------------------------------------------------
\* What a control command leaves alone.

\* the control_asset call context c is in, or is about to make
ControlOf(c) ==
    IF cal[c].pc = "idle" THEN Head(script[c]) ELSE ControlCall(cal[c].id, cal[c].action)

\* context c takes a step of a control_asset call that is accepted
ControlStep(c) ==
    \/ /\ cal[c].pc = "idle" /\ script[c] # <<>> /\ script'[c] # script[c]
       /\ Head(script[c]).op = "control"
       /\ Head(script[c]).id \in AssetIds
       /\ ControlValid(Head(script[c]).action, AssetType(Head(script[c]).id))
    \/ cal[c].pc \in {"ctl_read", "ctl_write"} /\ cal'[c] # cal[c]

\* C26: every step of a successful control_asset(id, action) leaves voltage,
\* current, power, temperature and timestamp of asset id, every other asset,
\* the metrics and the fault list as they were; open and close leave the
\* health_score of asset id as it was too.
C26_ControlFrame ==
    [][\A c \in Callers :
          ControlStep(c)
             => LET id == ControlOf(c).id
                    action == ControlOf(c).action
                IN /\ assets' = [assets EXCEPT ![id].status = assets'[id].status,
                                               ![id].health_score = assets'[id].health_score]
                   /\ action \in {"open", "close"}
                         => assets'[id].health_score = assets[id].health_score
                   /\ UNCHANGED <<metrics, faults>>]_vars

\* the breaker has been opened on a twin whose breaker had been tripped before
C26_BreakerOpened ==
    /\ cal["c2"].ret = "ok" /\ script["c2"] = <<>>
    /\ assets["CB_1"].status = "open"
    /\ assets["CB_1"].health_score = 0

-----------------------------------------------------------------------------
\* What a tick makes of operator commands and of a solve that did not converge.

\* C27: a breaker that reports open or closed after an operator's command goes
\* on reporting it across ticks: its status changes only by a step of a
\* control_asset call on that breaker.
C27_BreakerKeepsOperatorState ==
    [][\A id \in AssetIds :
          (/\ AssetType(id) = "CircuitBreaker"
           /\ assets[id].status \in {"open", "closed"}
           /\ assets'[id].status # assets[id].status)
             => \E c \in Callers : ControlStep(c) /\ ControlOf(c).id = id]_vars

\* C28: in a tick whose solve result has converged = false the update of an
\* asset leaves the asset's voltage, current and power as they were after the
\* last converged solve.
C28_NonConvergedKeepsValues ==
    [][\A t \in Threads :
          (AtSub(t, "elec") /\ thr'[t] # thr[t] /\ ~opendss_results.converged)
             => LET id == Cur(t)
                IN /\ assets'[id].voltage = assets[id].voltage
                   /\ assets'[id].current = assets[id].current
                   /\ assets'[id].power = assets[id].power]_vars

-----------------------------------------------------------------------------
\* The client list under registrations, removals and a publish at once.

\* C29: whatever the order of websocket_endpoint's append and remove and of the
\* steps of a publish, neither the publish nor the handler's remove raises, and
\* the client list holds registered sockets only, each at most once.
C29_SubscriberSetIntegrity ==
    /\ \A t \in Threads : ~(thr[t].pc = "except" /\ thr[t].err = "broadcast")
    /\ \A w \in Sockets : ws[w] # "error"
    /\ Members(websocket_clients) \subseteq {w \in Sockets : ws[w] = "open"}
    /\ Len(websocket_clients) = Cardinality(Members(websocket_clients))

-----------------------------------------------------------------------------
\* A tripped breaker.

\* C30: a breaker whose status is fault keeps that status through every step
\* of every tick, and the tick's write of its health_score lowers it by 1
\* (20 units), not below 0; only a reset, open or close command on the breaker
\* takes it out of fault.
C30_TrippedBreakerLatches ==
    [][\A id \in AssetIds :
          (AssetType(id) = "CircuitBreaker" /\ assets[id].status = "fault")
             => \/ /\ assets'[id].status = "fault"
                   /\ \A t \in Threads :
                         (AtSub(t, "hs") /\ Cur(t) = id /\ thr'[t] # thr[t])
                            => assets'[id].health_score = Max(0, assets[id].health_score - 20)
                \/ \E c \in Callers :
                      /\ ControlStep(c)
                      /\ ControlOf(c).id = id
                      /\ ControlOf(c).action \in {"reset", "open", "close"}]_vars

====
